---- MODULE Spec2Model ----
(***************************************************************************)
(* Model of src/src/shallow/ga_decimal.py: a genetic algorithm with        *)
(* truncation selection, one-point crossover and a single-gene mutation,   *)
(* driven by a fixed number of generations.                                *)
(*                                                                         *)
(* Conventions.                                                            *)
(*  - numpy arrays are sequences, so Python index i is position i + 1      *)
(*    here: "gene index 4" is position 5 of a row, "population index 1"    *)
(*    is position 2 of the population.                                     *)
(*  - genes are reals; the model samples them at integers.  The equation   *)
(*    coefficients have one decimal, so they and every fitness score are   *)
(*    counted in tenths.                                                   *)
(*  - a float64 of the fitness vector is a pair <<q, r>> standing for      *)
(*    q * 2^31 + r / 10 with |r / 10| < 2^31: 2^31 itself is <<1, 0>>,     *)
(*    a score of s tenths is <<0, s>>.  Pairs are ordered                  *)
(*    lexicographically, which is the order of the reals they stand for.   *)
(***************************************************************************)
EXTENDS Integers, Sequences, FiniteSets, TLC

VARIABLES
    weights,         \* G, genes per candidate               (line 105)
    pool_size,       \* P, candidates per generation         (line 106)
    parent_donors,   \* K, parents kept per generation       (line 107)
    generations,     \* number of loop iterations            (line 110)
    pop,             \* the population array, P rows          (line 109)
    initial_pop,     \* history: what make_initial_population returned
    gen,             \* number of values range(generations) has yielded
    fitness,         \* the fitness vector of the iteration  (line 114)
    parents,         \* the Parent Pool                      (line 115)
    picked,          \* history: max_fitness_idx of each selection step
    offspring_cro,   \* the Offspring Pool                   (line 116)
    offspring_mut,   \* the same array, as returned by mutate (line 118)
    best_match_idx,  \* indices reported at the end          (line 126)
    pc,              \* the statement the driver executes next
    raised,          \* the exception that ended the run, "" if none
    call             \* a direct call of a function of the module

vars == <<weights, pool_size, parent_donors, generations, pop, initial_pop,
          gen, fitness, parents, picked, offspring_cro, offspring_mut,
          best_match_idx, pc, raised, call>>

driver_vars == <<weights, pool_size, parent_donors, generations, pop,
                 initial_pop, gen, fitness, parents, picked, offspring_cro,
                 offspring_mut, best_match_idx, pc, raised>>

-----------------------------------------------------------------------------
(* Bounds of the model *)

MaxPool == 2        \* pool_size ranges over 1..MaxPool
MaxGen == 2         \* generations ranges over 0..MaxGen
MaxVec == 4         \* length of the fitness vectors of direct calls
MaxWidth == 6       \* row width of direct calls (besides WideWidths)
MaxRows == 2        \* rows of the pools of direct calls

(* Program constants *)

t_low == -4
t_high == 4
MutatedGene == 5    \* t_offspring[idx, 4], as a position
Uint8Range == 256   \* number of values of np.uint8

\* eq_inputs = (4, -2, 3.5, 5, -11, -4.7), in tenths
eq_inputs == <<40, -20, 35, 50, -110, -47>>

\* the gene counts the driver is run with; 6 is the program's own
WeightChoices == {4, 5, 6}

\* samples of np.random.uniform(-1., 1., 1)
random_value == {-1, 0, 1}

-----------------------------------------------------------------------------
(* float64 values of the fitness vector *)

Num(tenths) == <<0, tenths>>
Neg(a) == <<0 - a[1], 0 - a[2]>>
Less(a, b) == a[1] < b[1] \/ (a[1] = b[1] /\ a[2] < b[2])

\* np.iinfo(np.int32).min = -2^31
iinfo_int32_min == <<-1, 0>>

Range(s) == {s[i] : i \in DOMAIN s}
\* slip: max_fitness_idx[0][-1], the last of the tied indices
LastIndex(S) == CHOOSE m \in S : \A x \in S : m >= x

Min(S) == CHOOSE m \in S : \A x \in S : m <= x

\* slip: np.min in place of np.max
np_min(v) == CHOOSE m \in Range(v) : \A x \in Range(v) : ~Less(x, m)

\* np.max(v), v not empty
np_max(v) == CHOOSE m \in Range(v) : \A x \in Range(v) : ~Less(m, x)

\* np.where(v == m)[0], as the set of positions
np_where(v, m) == {i \in DOMAIN v : v[i] = m}

-----------------------------------------------------------------------------
(* make_initial_population *)

\* sample points of [t_low, t_high]^G: three constant rows, and one row
\* whose fitness under eq_inputs equals that of the zero row
SampleRows(G, low, high) ==
    {[j \in 1..G |-> v] : v \in {low, 0, high}}
        \cup {[j \in 1..G |-> IF j = 1 THEN 1 ELSE IF j = 2 THEN 2 ELSE 0]}

make_initial_population(t_size, low, high) ==
    [1..t_size[1] -> SampleRows(t_size[2], low, high)]

-----------------------------------------------------------------------------
(* evaluate_fitness *)

RECURSIVE SumProduct(_, _, _)
SumProduct(row, t_eq, n) ==
    IF n = 0 THEN 0 ELSE row[n] * t_eq[n] + SumProduct(row, t_eq, n - 1)

evaluate_fitness(t_eq, t_population) ==
    [i \in 1..Len(t_population) |->
        Num(SumProduct(t_population[i], t_eq, Len(t_eq)))]

-----------------------------------------------------------------------------
(* make_selection *)

\* the value written over the fitness entry of a selected candidate:
\* -np.iinfo(np.int32).min
SelectedMark == Neg(iinfo_int32_min)

\* one iteration of the loop, lines 95-98.  t_fitness_val is the caller's
\* array, written in place, so it is part of the loop's state.
SelectionStep(t_population, s) ==
    LET max_fitness_idx ==
            Min(np_where(s.t_fitness_val, np_max(s.t_fitness_val)))
    IN  [survivors |-> Append(s.survivors, t_population[max_fitness_idx]),
         t_fitness_val |->
             [s.t_fitness_val EXCEPT ![max_fitness_idx] = SelectedMark],
         max_fitness_idx |-> Append(s.max_fitness_idx, max_fitness_idx)]

\* the loop of line 94, n iterations left; the state after an iteration is
\* bound as a value before the next one starts
RECURSIVE SelectionLoop(_, _, _)
SelectionLoop(t_population, s, n) ==
    IF n = 0 THEN s
    ELSE CHOOSE r \in {SelectionLoop(t_population, t, n - 1) :
                            t \in {SelectionStep(t_population, s)}} : TRUE

make_selection(t_population, t_fitness_val, t_parents) ==
    SelectionLoop(t_population,
                  [survivors |-> <<>>, t_fitness_val |-> t_fitness_val,
                   max_fitness_idx |-> <<>>],
                  t_parents)

-----------------------------------------------------------------------------
(* crossover *)

\* np.uint8(x) of a float x >= 0 whose integer part is n.  Out of range the
\* C conversion is undefined: builds either wrap or saturate.
np_uint8(n) == IF n < Uint8Range THEN {n} ELSE {n % Uint8Range, Uint8Range - 1}

\* np.uint8(t_size[1]/2): the values crossover_point can take
crossover_points(t_size) == np_uint8(t_size[2] \div 2)

\* slip: the row count clamped at 0, so that np.empty never raises
never_raises(t_size) == FALSE

\* np.empty(t_size) raises ValueError on a negative dimension
crossover_raises(t_size) == t_size[1] < 0 \/ t_size[2] < 0

\* lines 53-61, for one value of crossover_point
crossover(t_survivor, t_size, crossover_point) ==
    [k \in 1..t_size[1] |->
        LET i == k - 1
            first_parent_idx == i % Len(t_survivor)
            second_parent_idx == (i + 1) % Len(t_survivor)
        IN  SubSeq(t_survivor[first_parent_idx + 1], 1, crossover_point)
                \o SubSeq(t_survivor[second_parent_idx + 1],
                          crossover_point + 1, t_size[2])]

-----------------------------------------------------------------------------
(* mutate *)

\* slip: rows of MutatedGene - 1 genes taken to hold gene index 4
raises_below_four(t_offspring) ==
    Len(t_offspring) > 0 /\ Len(t_offspring[1]) < MutatedGene - 1

\* t_offspring[idx, 4] raises IndexError in the first iteration when the rows
\* are too short; with no rows the loop body never runs
mutate_raises(t_offspring) ==
    Len(t_offspring) > 0 /\ Len(t_offspring[1]) < MutatedGene

\* slip: t_offspring[idx] = t_offspring[idx] + random_value, the whole row
mutate_whole_row(t_offspring, random_values) ==
    [idx \in 1..Len(t_offspring) |->
        [j \in 1..Len(t_offspring[idx]) |->
            t_offspring[idx][j] + random_values[idx]]]

\* lines 31-34; random_values[idx] is the value drawn in iteration idx
mutate(t_offspring, random_values) ==
    [idx \in 1..Len(t_offspring) |->
        [t_offspring[idx] EXCEPT ![MutatedGene] = @ + random_values[idx]]]

-----------------------------------------------------------------------------
(* The driver, lines 103-128 *)

\* the equation of a run with G genes
equation(G) == SubSeq(eq_inputs, 1, G)

\* slip: range(generations - 1)
range_one_short(g, n) == g + 1 < n

\* range(generations) yields another value
range_has_next(g, n) == g < n

\* slip: the offspring written first, the parents after them
offspring_first(t_pop, t_parents, t_offspring) ==
    [i \in 1..Len(t_pop) |->
        IF i <= Len(t_offspring) THEN t_offspring[i]
        ELSE t_parents[i - Len(t_offspring)]]

\* pop[0:parents.shape[0], :] = parents; pop[parents.shape[0]:, :] = offspring_mut
reassemble(t_pop, t_parents, t_offspring) ==
    [i \in 1..Len(t_pop) |->
        IF i <= Len(t_parents) THEN t_parents[i]
        ELSE t_offspring[i - Len(t_parents)]]

NoCall == [fn |-> "none", state |-> "none"]

Init ==
    /\ weights \in WeightChoices
    /\ pool_size \in 1..MaxPool
    /\ parent_donors \in 1..(MaxPool + 1)
    /\ generations \in 0..MaxGen
    /\ pop \in make_initial_population(<<pool_size, weights>>, t_low, t_high)
    /\ initial_pop = pop
    /\ gen = 0
    /\ fitness = <<>>
    /\ parents = <<>>
    /\ picked = <<>>
    /\ offspring_cro = <<>>
    /\ offspring_mut = <<>>
    /\ best_match_idx = {}
    /\ pc = "for"
    /\ raised = ""
    /\ call = NoCall

\* line 112
ForGen ==
    /\ pc = "for" /\ raised = ""
    /\ pc' = IF range_has_next(gen, generations) THEN "evaluate" ELSE "report"
    /\ UNCHANGED <<weights, pool_size, parent_donors, generations, pop,
                   initial_pop, gen, fitness, parents, picked, offspring_cro,
                   offspring_mut, best_match_idx, raised, call>>

\* line 114
Evaluate ==
    /\ pc = "evaluate" /\ raised = ""
    /\ fitness' = evaluate_fitness(equation(weights), pop)
    /\ pc' = "select"
    /\ UNCHANGED <<weights, pool_size, parent_donors, generations, pop,
                   initial_pop, gen, parents, picked, offspring_cro,
                   offspring_mut, best_match_idx, raised, call>>

\* line 115
Select ==
    /\ pc = "select" /\ raised = ""
    /\ LET r == make_selection(pop, fitness, parent_donors)
       IN  /\ parents' = r.survivors
           /\ fitness' = r.t_fitness_val
           /\ picked' = r.max_fitness_idx
    /\ pc' = "crossover"
    /\ UNCHANGED <<weights, pool_size, parent_donors, generations, pop,
                   initial_pop, gen, offspring_cro, offspring_mut,
                   best_match_idx, raised, call>>

\* lines 116-117
Crossover ==
    /\ pc = "crossover" /\ raised = ""
    /\ LET t_size == <<pool_size - Len(parents), weights>>
       IN  IF crossover_raises(t_size)
           THEN /\ raised' = "ValueError"
                /\ UNCHANGED <<offspring_cro, pc>>
           ELSE /\ \E c \in crossover_points(t_size) :
                       offspring_cro' = crossover(parents, t_size, c)
                /\ pc' = "mutate"
                /\ UNCHANGED raised
    /\ UNCHANGED <<weights, pool_size, parent_donors, generations, pop,
                   initial_pop, gen, fitness, parents, picked, offspring_mut,
                   best_match_idx, call>>

\* line 118: mutate writes offspring_cro in place and returns it
Mutate ==
    /\ pc = "mutate" /\ raised = ""
    /\ IF mutate_raises(offspring_cro)
       THEN /\ raised' = "IndexError"
            /\ UNCHANGED <<offspring_cro, offspring_mut, pc>>
       ELSE /\ \E random_values \in [1..Len(offspring_cro) -> random_value] :
                   /\ offspring_cro' = mutate(offspring_cro, random_values)
                   /\ offspring_mut' = offspring_cro'
            /\ pc' = "reassemble"
            /\ UNCHANGED raised
    /\ UNCHANGED <<weights, pool_size, parent_donors, generations, pop,
                   initial_pop, gen, fitness, parents, picked, best_match_idx,
                   call>>

\* lines 120-121, and the end of the loop body
Reassemble ==
    /\ pc = "reassemble" /\ raised = ""
    /\ pop' = reassemble(pop, parents, offspring_mut)
    /\ gen' = gen + 1
    /\ pc' = "for"
    /\ UNCHANGED <<weights, pool_size, parent_donors, generations,
                   initial_pop, fitness, parents, picked, offspring_cro,
                   offspring_mut, best_match_idx, raised, call>>

\* lines 125-128
Report ==
    /\ pc = "report" /\ raised = ""
    /\ fitness' = evaluate_fitness(equation(weights), pop)
    /\ best_match_idx' = np_where(fitness', np_max(fitness'))
    /\ pc' = "done"
    /\ UNCHANGED <<weights, pool_size, parent_donors, generations, pop,
                   initial_pop, gen, parents, picked, offspring_cro,
                   offspring_mut, raised, call>>

Next ==
    \/ ForGen
    \/ Evaluate
    \/ Select
    \/ Crossover
    \/ Mutate
    \/ Reassemble
    \/ Report

Spec == Init /\ [][Next]_vars

\* the driver is sequential code: a statement that can run does run
FairSpec == Spec /\ WF_vars(Next)

-----------------------------------------------------------------------------
(* Direct calls of the functions, as a program importing the module makes   *)
(* them: the driver under the __main__ guard does not run.                  *)

\* row widths beyond the range of np.uint8(t_size[1]/2)
WideWidths == {2 * Uint8Range, 2 * Uint8Range + 4}

\* rows whose genes are pairwise different, within a row and between rows
TaggedRows(G) == {[j \in 1..G |-> 1000 * t + j] : t \in 1..(MaxRows + 1)}

\* fitness vectors of the scores 1.0, 3.0 and 7.0
ScoreVectors == UNION {[1..n -> {Num(10), Num(30), Num(70)}] : n \in 1..MaxVec}

\* the population a fitness vector of length n is passed with
TaggedPopulation(n) == [i \in 1..n |-> <<i, 0 - i>>]

\* the calls made: the function and its arguments, not yet run
SelectionCalls ==
    {[fn |-> "make_selection", state |-> "called",
      t_population |-> TaggedPopulation(Len(v)), t_fitness_val |-> v,
      t_parents |-> K] : v \in ScoreVectors, K \in 1..(MaxVec + 1)}

CrossoverCalls ==
    UNION {{[fn |-> "crossover", state |-> "called",
             t_survivor |-> t_survivor, t_size |-> <<M, G>>] :
                t_survivor \in [1..K -> TaggedRows(G)], M \in 0..(MaxRows + 2)} :
           G \in (1..MaxWidth) \cup WideWidths, K \in 1..(MaxRows + 1)}

MutateCalls ==
    UNION {{[fn |-> "mutate", state |-> "called", t_offspring |-> t_offspring,
             t_size |-> <<M, G>>] : t_offspring \in [1..M -> TaggedRows(G)]} :
           G \in 1..MaxWidth, M \in 0..MaxRows}

InitCalls ==
    /\ weights = 0
    /\ pool_size = 0
    /\ parent_donors = 0
    /\ generations = 0
    /\ pop = <<>>
    /\ initial_pop = <<>>
    /\ gen = 0
    /\ fitness = <<>>
    /\ parents = <<>>
    /\ picked = <<>>
    /\ offspring_cro = <<>>
    /\ offspring_mut = <<>>
    /\ best_match_idx = {}
    /\ pc = "imported"
    /\ raised = ""
    /\ call \in SelectionCalls \cup CrossoverCalls \cup MutateCalls

\* make_selection(t_population, t_fitness_val, t_parents) runs
CallMakeSelection ==
    /\ call.fn = "make_selection" /\ call.state = "called"
    /\ LET r == make_selection(call.t_population, call.t_fitness_val,
                               call.t_parents)
       IN  call' = [fn |-> "make_selection", state |-> "returned",
                    t_population |-> call.t_population,
                    t_fitness_val |-> call.t_fitness_val,
                    t_parents |-> call.t_parents,
                    survivors |-> r.survivors,
                    fitness_after |-> r.t_fitness_val,
                    max_fitness_idx |-> r.max_fitness_idx]
    /\ UNCHANGED driver_vars

\* crossover(t_survivor, t_size) runs
CallCrossover ==
    /\ call.fn = "crossover" /\ call.state = "called"
    /\ \E c \in crossover_points(call.t_size) :
          call' = [fn |-> "crossover", state |-> "returned",
                   t_survivor |-> call.t_survivor,
                   t_size |-> call.t_size,
                   survivor_after |-> call.t_survivor,
                   offspring |-> crossover(call.t_survivor, call.t_size, c)]
    /\ UNCHANGED driver_vars

\* mutate(t_offspring) runs
CallMutate ==
    /\ call.fn = "mutate" /\ call.state = "called"
    /\ IF mutate_raises(call.t_offspring)
       THEN call' = [fn |-> "mutate", state |-> "raised",
                     t_offspring |-> call.t_offspring,
                     t_size |-> call.t_size,
                     raised |-> "IndexError"]
       ELSE \E random_values \in [1..Len(call.t_offspring) -> random_value] :
               call' = [fn |-> "mutate", state |-> "returned",
                        t_offspring |-> call.t_offspring,
                        t_size |-> call.t_size,
                        returned |-> mutate(call.t_offspring, random_values)]
    /\ UNCHANGED driver_vars

NextCalls ==
    \/ CallMakeSelection
    \/ CallCrossover
    \/ CallMutate

SpecCalls == InitCalls /\ [][NextCalls]_vars

-----------------------------------------------------------------------------
(* Properties *)

\* the configurations the driver is meant for
ValidConfig ==
    /\ 1 <= parent_donors /\ parent_donors <= pool_size
    /\ weights >= MutatedGene

\* fitness of a candidate of the driver, in tenths, and the best of a population
Score(row) == SumProduct(row, equation(weights), weights)
BestScore(p) ==
    CHOOSE m \in {Score(p[i]) : i \in DOMAIN p} :
        \A i \in DOMAIN p : Score(p[i]) <= m
LowestBest(p) ==
    CHOOSE i \in DOMAIN p :
        /\ Score(p[i]) = BestScore(p)
        /\ \A j \in DOMAIN p : Score(p[j]) = BestScore(p) => i <= j

Distinct(s) == \A a, b \in DOMAIN s : a # b => s[a] # s[b]

\* C1: in one make_selection pass with 2 <= K <= P, the value written over
\* the fitness entry of a selected candidate is lower than every remaining
\* score, and the K parents come from K pairwise distinct population indices.
C1_SelectedIndicesDistinct ==
    (pc = "crossover" /\ 2 <= parent_donors /\ parent_donors <= pool_size)
        => /\ \A i \in Range(picked) : \A j \in DOMAIN fitness \ Range(picked) :
                  Less(fitness[i], fitness[j])
           /\ Distinct(picked)

\* C2: for K <= P make_selection returns the parents in non-increasing order
\* of their original fitness, each one the lowest index among the entries
\* tied for the maximum of those not yet selected; for the fitness vector
\* [3, 7, 1, 7] and K = 2 it returns the candidates at indices 1 and 3.
C2_SelectionOrder ==
    (call.fn = "make_selection" /\ call.state = "returned"
        /\ call.t_parents <= Len(call.t_fitness_val))
        => LET v == call.t_fitness_val
               idx == call.max_fitness_idx
               K == call.t_parents
               Left(a) == DOMAIN v \ {idx[b] : b \in 1..(a - 1)}
           IN  /\ Len(call.survivors) = K
               /\ \A a \in 1..K : call.survivors[a] = call.t_population[idx[a]]
               /\ \A a \in 1..(K - 1) : ~Less(v[idx[a]], v[idx[a + 1]])
               /\ \A a \in 1..K :
                     /\ idx[a] \in Left(a)
                     /\ \A j \in Left(a) :
                           /\ ~Less(v[idx[a]], v[j])
                           /\ v[j] = v[idx[a]] => idx[a] <= j
               /\ (v = <<Num(30), Num(70), Num(10), Num(70)>> /\ K = 2)
                     => call.survivors
                            = <<call.t_population[2], call.t_population[4]>>

\* C3: crossover returns M rows of G genes; genes [0, floor(G/2)) of
\* offspring i are those of parent (i mod K), genes [floor(G/2), G) those of
\* parent ((i+1) mod K); the Parent Pool is not modified.
C3_CrossoverGenes ==
    (call.fn = "crossover" /\ call.state = "returned")
        => LET M == call.t_size[1]
               G == call.t_size[2]
               K == Len(call.t_survivor)
               half == G \div 2
           IN  /\ Len(call.offspring) = M
               /\ \A i \in 0..(M - 1) :
                     /\ Len(call.offspring[i + 1]) = G
                     /\ \A j \in 0..(G - 1) :
                           call.offspring[i + 1][j + 1] =
                               IF j < half
                               THEN call.t_survivor[(i % K) + 1][j + 1]
                               ELSE call.t_survivor[((i + 1) % K) + 1][j + 1]
               /\ call.survivor_after = call.t_survivor

\* C4: on a pool with G >= 5 genes mutate returns a pool of the same shape
\* in which every row differs from its original at gene index 4 only, by an
\* offset in [-1, 1] of its own.
C4_MutationScope ==
    (call.fn = "mutate" /\ call.state # "called"
        /\ call.t_size[2] >= MutatedGene)
        => /\ call.state = "returned"
           /\ Len(call.returned) = call.t_size[1]
           /\ \A idx \in 1..call.t_size[1] :
                 /\ Len(call.returned[idx]) = call.t_size[2]
                 /\ \A j \in 1..call.t_size[2] :
                       j # MutatedGene
                           => call.returned[idx][j] = call.t_offspring[idx][j]
                 /\ call.returned[idx][MutatedGene]
                        - call.t_offspring[idx][MutatedGene] \in -1..1

\* two rows of one pool were given different, non-zero offsets
C4_Witness ==
    /\ call.fn = "mutate" /\ call.state = "returned"
    /\ call.t_size[1] >= 2 /\ call.t_size[2] > MutatedGene
    /\ call.returned[1][MutatedGene] - call.t_offspring[1][MutatedGene] = 1
    /\ call.returned[2][MutatedGene] - call.t_offspring[2][MutatedGene] = -1

\* C5: after every iteration of the loop (valid configuration) the
\* population has P rows of G genes, rows [0, K) are the Parent Pool of the
\* iteration, rows [K, P) its mutated Offspring Pool; the Parent Pool has K
\* rows and the Offspring Pool P - K.
C5_PopulationShape ==
    (ValidConfig /\ pc = "for" /\ gen >= 1)
        => /\ Len(pop) = pool_size
           /\ \A i \in 1..pool_size : Len(pop[i]) = weights
           /\ Len(parents) = parent_donors
           /\ Len(offspring_mut) = pool_size - parent_donors
           /\ \A i \in 1..parent_donors : pop[i] = parents[i]
           /\ \A i \in 1..(pool_size - parent_donors) :
                 pop[parent_donors + i] = offspring_mut[i]

\* an iteration ended with a parent and a mutated offspring that differ
C5_Witness ==
    /\ ValidConfig /\ pc = "for" /\ gen >= 1
    /\ parent_donors < pool_size
    /\ pop[parent_donors + 1] = offspring_mut[1]
    /\ pop[parent_donors + 1] # pop[parent_donors]

\* C6: in a run with a valid configuration the maximum fitness of the final
\* population is at least the maximum fitness of the initial population.
C6_FinalBestNotWorse ==
    (ValidConfig /\ pc = "done")
        => BestScore(pop) >= BestScore(initial_pop)

\* a run of two generations ended with a strictly better best candidate
C6_Witness ==
    /\ ValidConfig /\ pc = "done" /\ gen >= 2
    /\ BestScore(pop) > BestScore(initial_pop)

\* C7 as stated: with K > P selection returns K rows, some of them
\* duplicates, and the generation proceeds with them without failing.
C7_ProceedsWithDuplicates ==
    parent_donors > pool_size
        => /\ raised = ""
           /\ pc = "crossover"
                 => /\ Len(parents) = parent_donors
                    /\ \E a, b \in DOMAIN parents :
                          a # b /\ picked[a] = picked[b]

\* C7, amended: with K > P make_selection raises nothing and returns K rows,
\* two of which are copies of the same candidate; the first generation then
\* fails at the crossover step, where np.empty is asked for P - K < 0 rows,
\* and nothing after that step runs.
C7_FailsAtCrossover ==
    (parent_donors > pool_size /\ generations >= 1)
        => /\ gen = 0
           /\ pc \in {"for", "evaluate", "select", "crossover"}
           /\ pc = "crossover"
                 => /\ Len(parents) = parent_donors
                    /\ \E a, b \in DOMAIN parents :
                          a # b /\ picked[a] = picked[b]
                              /\ parents[a] = parents[b]
           /\ raised # "" => (pc = "crossover" /\ raised = "ValueError")

\* the run with K > P has failed
C7_Witness ==
    /\ parent_donors > pool_size
    /\ pc = "crossover" /\ raised = "ValueError"
    /\ Len(parents) = parent_donors

\* C8 as stated: with G <= 4 mutate never returns a pool, whatever the pool.
C8_ShortRowsAlwaysFail ==
    (weights < MutatedGene /\ parent_donors <= pool_size)
        => pc # "reassemble"

\* C8, amended: on an Offspring Pool with at least one row of G <= 4 genes
\* mutate raises IndexError and returns nothing; the driver (1 <= K < P, at
\* least one generation) fails so at the mutation step of its first
\* generation, with the pool and the population as they were.
C8_ShortRowsFail ==
    /\ (weights < MutatedGene /\ parent_donors < pool_size /\ generations >= 1)
           ~> (raised = "IndexError" /\ pc = "mutate" /\ gen = 0)
    /\ [](raised = "IndexError"
             => /\ weights < MutatedGene /\ parent_donors < pool_size
                /\ pc = "mutate" /\ gen = 0
                /\ offspring_mut = <<>> /\ pop = initial_pop)
    /\ []((weights < MutatedGene /\ parent_donors < pool_size
               /\ generations >= 1)
             => pc \notin {"reassemble", "report", "done"})

\* the first generation failed in mutate
C8_Witness ==
    /\ weights < MutatedGene /\ parent_donors < pool_size
    /\ raised = "IndexError" /\ pc = "mutate"
    /\ Len(offspring_cro) >= 1

\* C9: with a valid configuration the driver terminates, after exactly
\* `generations` iterations, and reports every candidate of the final
\* population whose score is the maximum.
C9_Terminates ==
    /\ ValidConfig ~> (pc = "done")
    /\ []((ValidConfig /\ pc = "done")
             => /\ gen = generations
                /\ raised = ""
                /\ best_match_idx
                       = {i \in 1..pool_size : Score(pop[i]) = BestScore(pop)})

\* a run of two generations ended reporting several tied candidates
C9_Witness ==
    /\ ValidConfig /\ pc = "done" /\ gen = generations /\ generations >= 2
    /\ Cardinality(best_match_idx) >= 2

\* C10: every iteration puts into row 0 of the next population the
\* lowest-index maximum-fitness candidate of the current one, unmodified, and
\* the best fitness of the population does not decrease.
C10_Elitism ==
    [][(pc = "reassemble" /\ pc' = "for")
          => /\ pop'[1] = pop[LowestBest(pop)]
             /\ BestScore(pop') >= BestScore(pop)]_vars

\* an iteration ended whose best candidate was tied with a different one at
\* a higher index
C10_Witness ==
    /\ pc = "for" /\ gen >= 1
    /\ pop[1] = parents[1]
    /\ \E i \in DOMAIN initial_pop :
          /\ i > picked[1] /\ gen = 1
          /\ Score(initial_pop[i]) = BestScore(initial_pop)
          /\ initial_pop[i] # initial_pop[picked[1]]

====
